---------------------------- MODULE Spec2Model ----------------------------
(***************************************************************************)
(* A model of the Sudoku solver: the grid stores and views of Sudoku.py    *)
(* and the breadth-first search of solve.py.                               *)
(*                                                                         *)
(* A store is a sequence of 81 cell values in row-major order; the cell at *)
(* coordinate (x, y) has flat index x + 9*y (sequence position x+9*y+1).   *)
(* Stores are heap objects named by identifiers, so that sharing between   *)
(* the worklist, the emitted solutions and the caller's input is visible.  *)
(***************************************************************************)
EXTENDS Integers, Sequences, FiniteSets, TLC

VARIABLES
    pc,        \* position of the program: "new", "start", "loop", "done", "error";
               \* "view", "section", "parse", "parsed" when a part is used on its own
    entries,   \* the 81 entries the caller supplies
    heap,      \* store identifier -> sequence of 81 cell values
    input,     \* identifier of the caller's store (0 before construction)
    active,    \* find_solutions: the worklist, a sequence of store identifiers
    emitted,   \* the solutions yielded so far, a sequence of store identifiers
    data,      \* SudokuView.data: identifier of the store installed in the view
    err,       \* the exception raised, "none" if none
    dead,      \* history: stores popped with an option of size 0, and what derives from them
    ret        \* the last operation and its result; for a step of find_solutions,
               \* history: the popped store as it was, the option selected, the stores requeued

vars == <<pc, entries, heap, input, active, emitted, data, err, dead, ret>>

(***************************************************************************)
(* Values                                                                  *)
(***************************************************************************)

\* Python's None in a cell: a value distinct from every integer entry modelled.
None == -1

\* square_values = frozenset(range(1,10))
square_values == 1..9

\* Minimum of a non-empty set of integers.
SetMin(S) == CHOOSE m \in S : \A n \in S : m <= n

\* The elements of a sequence.
Range(s) == {s[i] : i \in DOMAIN s}

(***************************************************************************)
(* Python indexing of a tuple or list of length n: a negative index counts *)
(* from the end, anything outside -n..n-1 raises IndexError.               *)
(***************************************************************************)
PyIndexOk(i, n) == i \in (0 - n)..(n - 1)
PyIndex(i, n) == IF i < 0 THEN i + n ELSE i

(***************************************************************************)
(* SudokuData: cell access                                                 *)
(***************************************************************************)

\* MutableSudokuData.__getitem__ / TupleSudokuData.__getitem__, for a position inside the store
DataGet(d, position) == d[PyIndex(position[1] + position[2] * 9, 81) + 1]

\* MutableSudokuData.__setitem__
DataSet(d, position, value) ==
    [d EXCEPT ![PyIndex(position[1] + position[2] * 9, 81) + 1] = value]

\* SudokuData.__iter__: the cells for y in range(9), for x in range(9)
DataIter(d) == [k \in 1..81 |-> DataGet(d, <<(k - 1) % 9, (k - 1) \div 9>>)]

(***************************************************************************)
(* SudokuView topology: squares, rows, columns, boxes                      *)
(***************************************************************************)

\* SudokuView.squares: SudokuSquare(self,x,y) for y in range(9) for x in range(9)
squares == [k \in 1..81 |-> <<(k - 1) % 9, (k - 1) \div 9>>]

\* SudokuView.__getitem__: the range tests are written 0 > x > 9, then squares[x + 9 * y]
ViewGetItem(target) ==
    LET x == target[1]
        y == target[2]
        i == x + 9 * y
    IN  IF (0 > x /\ x > 9) \/ (0 > y /\ y > 9)
        THEN [raised |-> "IndexError", square |-> <<None, None>>]
        ELSE IF ~PyIndexOk(i, 81)
        THEN [raised |-> "IndexError", square |-> <<None, None>>]
        ELSE [raised |-> "none", square |-> squares[PyIndex(i, 81) + 1]]

\* SudokuRow / SudokuColumn / SudokuBox ._get_index_position
get_index_position(kind, position, index) ==
    CASE kind = "row"    -> <<index, position>>
      [] kind = "column" -> <<position, index>>
      [] kind = "box"    -> <<(position % 3) * 3 + (index % 3),
                              (position \div 3) * 3 + (index \div 3)>>

\* Sudoku9.__getitem__ with an int index: the range test is written 0 > index > 9
Sudoku9GetItem(kind, position, index) ==
    IF 0 > index /\ index > 9
    THEN [raised |-> "IndexError", square |-> <<None, None>>]
    ELSE ViewGetItem(get_index_position(kind, position, index))

\* Sudoku9.__iter__: the nine squares of a section
Sudoku9Iter(kind, position) ==
    [i \in 1..9 |-> ViewGetItem(get_index_position(kind, position, i - 1)).square]

rows    == [p \in 1..9 |-> Sudoku9Iter("row", p - 1)]
columns == [p \in 1..9 |-> Sudoku9Iter("column", p - 1)]
boxes   == [p \in 1..9 |-> Sudoku9Iter("box", p - 1)]

\* SudokuView.sections: rows + columns + boxes
sections == rows \o columns \o boxes

\* SudokuSquare.sections: (row, column, box) of a square
SquareSections(sq) ==
    <<rows[sq[2] + 1], columns[sq[1] + 1], boxes[(sq[1] \div 3) + 3 * (sq[2] \div 3) + 1]>>

\* SudokuSquare.value
SquareValue(d, sq) == DataGet(d, sq)

(***************************************************************************)
(* SudokuView.validate and SudokuView.solved                               *)
(***************************************************************************)

\* lines 225-232: the inner loop of validate on one section, from square i on;
\* values holds what has not been removed, and remove raises KeyError (the
\* result is then False) on a value that is absent
\* Mutant of validate_section: the test "value is not None" is left out, so
\* an empty square is removed from values like any value.
RECURSIVE validate_section_none(_, _, _, _)
validate_section_none(d, section, i, values) ==
    IF i > Len(section) THEN TRUE
    ELSE LET value == SquareValue(d, section[i])
         IN  IF value \notin values THEN FALSE
             ELSE validate_section_none(d, section, i + 1, values \ {value})

RECURSIVE validate_section(_, _, _, _)
validate_section(d, section, i, values) ==
    IF i > Len(section) THEN TRUE
    ELSE LET value == SquareValue(d, section[i])
         IN  IF value = None THEN validate_section(d, section, i + 1, values)
             ELSE IF value \notin values THEN FALSE
             ELSE validate_section(d, section, i + 1, values \ {value})

\* Mutant of validate: values.discard in place of values.remove, no KeyError.
validate_discard(d) == TRUE

\* lines 223-233: False at the first section whose scan fails, else True
validate(d) == \A s \in 1..Len(sections) : validate_section(d, sections[s], 1, square_values)

\* Mutant of solved: the call of validate is left out.
solved_full_only(d) == \A k \in 1..81 : SquareValue(d, squares[k]) # None

\* lines 220-222: all squares hold a value, and validate()
solved(d) == (\A k \in 1..81 : SquareValue(d, squares[k]) # None) /\ validate(d)

(***************************************************************************)
(* solve.py: get_advancement_options                                       *)
(*                                                                         *)
(* A move is <<x, y, value>>; an option is a set of moves.  A yield is     *)
(* [by |-> what it was computed for, option |-> the set of moves].  The    *)
(* generator yields one option per empty square in the order of            *)
(* SudokuView.squares, then for each section in the order of               *)
(* SudokuView.sections one option per missing value.  The missing values   *)
(* are iterated in the iteration order of a frozenset, which the code does *)
(* not fix: the yields of one section form a group with no order inside.   *)
(***************************************************************************)

\* Mutant of square_possibilities: the box of the square is left out.
square_possibilities_no_box(d, sq) ==
    square_values \
        UNION {{SquareValue(d, cur) : cur \in Range(section)} :
                  section \in {rows[sq[2] + 1], columns[sq[1] + 1]}}

\* line 11: the values of square_values held by no square of the square's sections
square_possibilities(d, sq) ==
    square_values \
        UNION {{SquareValue(d, cur) : cur \in Range(section)} :
                  section \in Range(SquareSections(sq))}

\* line 13: the option yielded for an empty square
CellOption(d, sq) == {<<sq[1], sq[2], value>> : value \in square_possibilities(d, sq)}

\* Mutant of missing: every value counts as missing from the section.
missing_all(d, section) == square_values

\* line 15: the values of square_values held by no square of the section
missing(d, section) == square_values \ {SquareValue(d, square) : square \in Range(section)}

\* lines 17-19: the option yielded for a section and a value missing from it
SectionOption(d, section, value) ==
    {<<square[1], square[2], value>> :
        square \in {sq \in Range(section) :
                       SquareValue(d, sq) = None /\ value \in square_possibilities(d, sq)}}

\* Mutant of CellYields: the first loop is never entered.
CellYields_none(d) == <<>>

\* lines 9-13: the yields of the first loop, in order: a square that is not
\* empty yields nothing
CellYields(d) ==
    SelectSeq([k \in 1..81 |->
                  IF SquareValue(d, squares[k]) = None
                  THEN {[by |-> <<"square", squares[k][1], squares[k][2]>>,
                         option |-> CellOption(d, squares[k])]}
                  ELSE {}],
              LAMBDA group : group # {})

\* Mutant of SectionYields: the second loop is never entered.
SectionYields_none(d) == <<>>

\* lines 14-19: the yields of the second loop, one group per section
SectionYields(d) ==
    [s \in 1..Len(sections) |->
        {[by |-> <<"section", s, value>>, option |-> SectionOption(d, sections[s], value)] :
            value \in missing(d, sections[s])}]

get_advancement_options(d) == CellYields(d) \o SectionYields(d)

(***************************************************************************)
(* solve.py: select_advancement_option                                     *)
(*                                                                         *)
(* A result is [len |-> l, options |-> o]; (None, None) is NoOption.  The  *)
(* operator gives the set of results the loop can return: inside a group   *)
(* any yield may come first.  The loop returns the first option of size 0  *)
(* or 1 it meets (lines 27-30); if it meets none it returns the first      *)
(* option of the least size, since shortest is replaced only by a strictly *)
(* shorter option (lines 31-34).                                           *)
(***************************************************************************)
NoOption == [len |-> None, options |-> {}]

\* Mutant of select_from: only an option of size 1 ends the scan early; an
\* option of size 0 is returned as the shortest when no option has size 1.
select_from_single_first(groups) ==
    LET Opts(i)  == {yield.option : yield \in groups[i]}
        early(i) == {o \in Opts(i) : Cardinality(o) = 1}
        earlyAt  == {i \in DOMAIN groups : early(i) # {}}
        sizes    == UNION {{Cardinality(o) : o \in Opts(i)} : i \in DOMAIN groups}
    IN  IF earlyAt # {}
        THEN {[len |-> Cardinality(o), options |-> o] : o \in early(SetMin(earlyAt))}
        ELSE IF sizes = {} THEN {NoOption}
        ELSE LET shortest_len == SetMin(sizes)
                 first == SetMin({i \in DOMAIN groups :
                                     \E o \in Opts(i) : Cardinality(o) = shortest_len})
             IN  {[len |-> shortest_len, options |-> o] :
                     o \in {p \in Opts(first) : Cardinality(p) = shortest_len}}

\* Mutant of select_from: shortest is replaced by an option as short as it
\* (l <= shortest_len), so the last option of the least size is returned.
select_from_last_seen(groups) ==
    LET Opts(i)  == {yield.option : yield \in groups[i]}
        early(i) == {o \in Opts(i) : Cardinality(o) = 0 \/ Cardinality(o) = 1}
        earlyAt  == {i \in DOMAIN groups : early(i) # {}}
        sizes    == UNION {{Cardinality(o) : o \in Opts(i)} : i \in DOMAIN groups}
    IN  IF earlyAt # {}
        THEN {[len |-> Cardinality(o), options |-> o] : o \in early(SetMin(earlyAt))}
        ELSE IF sizes = {} THEN {NoOption}
        ELSE LET shortest_len == SetMin(sizes)
                 last == CHOOSE i \in DOMAIN groups :
                             /\ \E o \in Opts(i) : Cardinality(o) = shortest_len
                             /\ \A j \in DOMAIN groups :
                                   (\E o \in Opts(j) : Cardinality(o) = shortest_len) => j <= i
             IN  {[len |-> shortest_len, options |-> o] :
                     o \in {p \in Opts(last) : Cardinality(p) = shortest_len}}

\* The results of the loop of lines 25-34 run on the yields in groups.
select_from(groups) ==
    LET Opts(i)  == {yield.option : yield \in groups[i]}
        early(i) == {o \in Opts(i) : Cardinality(o) = 0 \/ Cardinality(o) = 1}
        earlyAt  == {i \in DOMAIN groups : early(i) # {}}
        sizes    == UNION {{Cardinality(o) : o \in Opts(i)} : i \in DOMAIN groups}
    IN  IF earlyAt # {}
        THEN {[len |-> Cardinality(o), options |-> o] : o \in early(SetMin(earlyAt))}
        ELSE IF sizes = {} THEN {NoOption}
        ELSE LET shortest_len == SetMin(sizes)
                 first == SetMin({i \in DOMAIN groups :
                                     \E o \in Opts(i) : Cardinality(o) = shortest_len})
             IN  {[len |-> shortest_len, options |-> o] :
                     o \in {p \in Opts(first) : Cardinality(p) = shortest_len}}

\* The generator is run once per call: its yields are bound before the scan.
select_advancement_option(d) ==
    UNION {select_from(groups) : groups \in {get_advancement_options(d)}}

(***************************************************************************)
(* The inputs explored                                                     *)
(***************************************************************************)

\* The puzzle of solve.py's entry point, as data_from_string returns it.
ExamplePuzzle ==
    << None, 2, 1, None, None, None, None, 3, 4,
       9, None, None, None, 2, None, 1, None, 8,
       7, 5, None, 8, 1, 4, None, 9, None,
       6, None, None, 1, 7, None, None, None, 3,
       None, 4, 7, 2, None, 9, None, None, 5,
       None, 3, 5, None, 6, None, 9, 1, 7,
       4, 1, 8, 3, None, 2, None, 7, 9,
       None, None, 6, 9, 8, None, 3, 4, None,
       None, 9, None, None, None, 7, None, None, 1 >>

\* The completion of ExamplePuzzle; the other inputs are edits of it.
ExampleSolution ==
    << 8, 2, 1, 5, 9, 6, 7, 3, 4,
       9, 6, 4, 7, 2, 3, 1, 5, 8,
       7, 5, 3, 8, 1, 4, 2, 9, 6,
       6, 8, 9, 1, 7, 5, 4, 2, 3,
       1, 4, 7, 2, 3, 9, 8, 6, 5,
       2, 3, 5, 4, 6, 8, 9, 1, 7,
       4, 1, 8, 3, 5, 2, 6, 7, 9,
       5, 7, 6, 9, 8, 1, 3, 4, 2,
       3, 9, 2, 6, 4, 7, 5, 8, 1 >>

\* The cells that may be blanked, in the order in which the bound admits them.
\* The first four are the corners of a rectangle holding 6 4 / 4 6.
BlankSeq == << <<5,0>>, <<8,0>>, <<5,2>>, <<8,2>>, <<2,1>>, <<5,1>>, <<2,2>>, <<4,1>>, <<6,1>> >>

\* How many cells of BlankSeq may be blanked.
NumBlankCells == 5

BlankCells == {BlankSeq[i] : i \in 1..NumBlankCells}

\* At most one cell is overwritten, with a value inside or outside 1..9.
OverrideCells  == {<<4,4>>, <<8,0>>}
OverrideValues == {0, 4, 6, 10}
Overrides == {<<>>} \cup {<<c, v>> : c \in OverrideCells, v \in OverrideValues}

Edited(blank, override) ==
    [k \in 1..81 |->
        IF override # <<>> /\ squares[k] = override[1] THEN override[2]
        ELSE IF squares[k] \in blank THEN None
        ELSE ExampleSolution[k]]

Inputs == {ExamplePuzzle} \cup {Edited(B, o) : B \in SUBSET BlankCells, o \in Overrides}

(***************************************************************************)
(* Construction of stores                                                  *)
(***************************************************************************)

\* TupleSudokuData.__init__: the exception raised on a tuple of integers and
\* Nones, "none" if none; the range test is written 1 > value > 10
TupleSudokuData_init(t) ==
    IF Len(t) # 81 THEN "ValueError"
    ELSE IF \E k \in 1..Len(t) : t[k] # None /\ (1 > t[k] /\ t[k] > 10) THEN "ValueError"
    ELSE "none"

\* The identifier of the next object allocated in heap h.
Fresh(h) == Cardinality(DOMAIN h) + 1

\* Mutant of MutableSudokuData: the store given is returned, not a copy.
MutableSudokuData_alias(h, src) == [id |-> src, heap |-> h]

\* MutableSudokuData(src): a new store whose _data is list(src); the result
\* is the new store's identifier and the heap holding it
MutableSudokuData(h, src) ==
    [id |-> Fresh(h), heap |-> h @@ (Fresh(h) :> DataIter(h[src]))]

\* TupleSudokuData(src): a new immutable store holding the cells of src
TupleSudokuData(h, src) ==
    [id |-> Fresh(h), heap |-> h @@ (Fresh(h) :> DataIter(h[src])),
     raised |-> TupleSudokuData_init(DataIter(h[src]))]

(***************************************************************************)
(* solve.py: find_solutions                                                *)
(***************************************************************************)

\* Mutant of MakeClones: range(option_split-2), one copy too few.
RECURSIVE MakeClones_short(_, _, _)
MakeClones_short(h, current, n) ==
    IF n <= 1 THEN [heap |-> h, ids |-> <<>>]
    ELSE LET one  == MutableSudokuData(h, current)
             rest == MakeClones_short(one.heap, current, n - 1)
         IN  [heap |-> rest.heap, ids |-> <<one.id>> \o rest.ids]

\* Mutant of MakeClones: range(option_split), one copy too many.
RECURSIVE MakeClones_extra(_, _, _)
MakeClones_extra(h, current, n) ==
    IF n < 0 THEN [heap |-> h, ids |-> <<>>]
    ELSE LET one  == MutableSudokuData(h, current)
             rest == MakeClones_extra(one.heap, current, n - 1)
         IN  [heap |-> rest.heap, ids |-> <<one.id>> \o rest.ids]

\* line 57: the option_split-1 copies of current, made one after the other
RECURSIVE MakeClones(_, _, _)
MakeClones(h, current, n) ==
    IF n <= 0 THEN [heap |-> h, ids |-> <<>>]
    ELSE LET one  == MutableSudokuData(h, current)
             rest == MakeClones(one.heap, current, n - 1)
         IN  [heap |-> rest.heap, ids |-> <<one.id>> \o rest.ids]

\* Mutant of ApplyMoves: every store of split gets the first move.
RECURSIVE ApplyMoves_first(_, _, _, _)
ApplyMoves_first(h, split, moves, i) ==
    IF i > Len(split) \/ i > Len(moves) THEN h
    ELSE ApplyMoves_first([h EXCEPT ![split[i]] = DataSet(@, <<moves[1][1], moves[1][2]>>, moves[1][3])],
                          split, moves, i + 1)

\* Mutant of ApplyMoves: data[y,x]=value, the coordinates exchanged.
RECURSIVE ApplyMoves_transposed(_, _, _, _)
ApplyMoves_transposed(h, split, moves, i) ==
    IF i > Len(split) \/ i > Len(moves) THEN h
    ELSE ApplyMoves_transposed(
             [h EXCEPT ![split[i]] = DataSet(@, <<moves[i][2], moves[i][1]>>, moves[i][3])],
             split, moves, i + 1)

\* lines 58-59: data[x,y]=value for each pair of zip(split, options), from pair i on
RECURSIVE ApplyMoves(_, _, _, _)
ApplyMoves(h, split, moves, i) ==
    IF i > Len(split) \/ i > Len(moves) THEN h
    ELSE ApplyMoves([h EXCEPT ![split[i]] = DataSet(@, <<moves[i][1], moves[i][2]>>, moves[i][3])],
                    split, moves, i + 1)

\* The orders in which iterating the frozenset options can produce its moves.
IterationOrders(options) ==
    {f \in [1..Cardinality(options) -> options] :
        \A i, j \in 1..Cardinality(options) : f[i] = f[j] => i = j}

\* Some yield of get_advancement_options has no alternative.
HasEmptyOption(d) ==
    \E groups \in {get_advancement_options(d)} :
        \E i \in DOMAIN groups : \E yield \in groups[i] : yield.option = {}

\* The stores marked dead when current is popped and stores ids derive from it.
DeadAfter(current, ids) ==
    IF current \in dead \/ HasEmptyOption(heap[current]) THEN dead \cup ids ELSE dead

Init ==
    /\ pc = "new"
    /\ entries \in Inputs
    /\ heap = <<>>
    /\ input = 0
    /\ active = <<>>
    /\ emitted = <<>>
    /\ data = 0
    /\ err = "none"
    /\ dead = {}
    /\ ret = [op |-> "none"]

\* The caller builds its store: TupleSudokuData(entries)
Construct ==
    /\ pc = "new"
    /\ LET raised == TupleSudokuData_init(entries)
       IN  IF raised # "none"
           THEN /\ pc' = "error"
                /\ err' = raised
                /\ UNCHANGED <<heap, input>>
           ELSE /\ pc' = "start"
                /\ heap' = (1 :> entries)
                /\ input' = 1
                /\ err' = "none"
    /\ UNCHANGED <<entries, active, emitted, data, dead, ret>>

\* lines 38-40: start = MutableSudokuData(start); sudoku = SudokuView(start); active = [start]
Start ==
    /\ pc = "start"
    /\ LET start == MutableSudokuData(heap, input)
       IN  /\ heap' = start.heap
           /\ data' = start.id
           /\ active' = <<start.id>>
    /\ pc' = "loop"
    /\ UNCHANGED <<entries, input, emitted, err, dead, ret>>

\* lines 42-48: the popped store is solved and is yielded as a TupleSudokuData
StepEmit ==
    /\ pc = "loop"
    /\ active # <<>>
    /\ LET current == Head(active)
           made    == TupleSudokuData(heap, current)
       IN  /\ solved(heap[current]) = TRUE
           /\ data' = current
           /\ active' = Tail(active)
           /\ dead' = DeadAfter(current, {made.id})
           /\ IF made.raised # "none"
              THEN /\ pc' = "error"
                   /\ err' = made.raised
                   /\ UNCHANGED <<heap, emitted>>
              ELSE /\ heap' = made.heap
                   /\ emitted' = Append(emitted, made.id)
                   /\ UNCHANGED <<pc, err>>
           /\ ret' = [op |-> "yield", current |-> current]
    /\ UNCHANGED <<entries, input>>

\* lines 49-51: the selected option has no alternative, the popped store is dropped
StepDiscard ==
    /\ pc = "loop"
    /\ active # <<>>
    /\ LET current == Head(active)
       IN  /\ solved(heap[current]) = FALSE
           /\ \E sel \in select_advancement_option(heap[current]) :
                 /\ sel.len = 0
                 /\ ret' = [op |-> "step", current |-> current, before |-> heap[current], rest |-> Tail(active),
                             len |-> sel.len, options |-> sel.options, pushed |-> <<>>]
           /\ data' = current
           /\ active' = Tail(active)
           /\ dead' = DeadAfter(current, {current})
    /\ UNCHANGED <<pc, entries, heap, input, emitted, err>>

\* lines 52-55: the selected option has one alternative, applied to the popped store
StepForced ==
    /\ pc = "loop"
    /\ active # <<>>
    /\ LET current == Head(active)
       IN  /\ solved(heap[current]) = FALSE
           /\ \E sel \in select_advancement_option(heap[current]) :
                 /\ sel.len = 1
                 /\ \E move \in sel.options :
                       heap' = ApplyMoves(heap, <<current>>, <<move>>, 1)
                 /\ ret' = [op |-> "step", current |-> current, before |-> heap[current], rest |-> Tail(active),
                             len |-> sel.len, options |-> sel.options, pushed |-> <<current>>]
           /\ data' = current
           /\ active' = Append(Tail(active), current)
           /\ dead' = DeadAfter(current, {current})
    /\ UNCHANGED <<pc, entries, input, emitted, err>>

\* lines 56-60: the selected option has several alternatives, one store each;
\* option_split of None makes range(option_split-1) raise TypeError
StepSplit ==
    /\ pc = "loop"
    /\ active # <<>>
    /\ LET current == Head(active)
       IN  /\ solved(heap[current]) = FALSE
           /\ \E sel \in select_advancement_option(heap[current]) :
                 /\ sel.len # 0
                 /\ sel.len # 1
                 /\ IF sel.len = None
                    THEN /\ pc' = "error"
                         /\ err' = "TypeError"
                         /\ active' = Tail(active)
                         /\ dead' = DeadAfter(current, {current})
                         /\ ret' = [op |-> "step", current |-> current,
                                     before |-> heap[current], rest |-> Tail(active), len |-> sel.len,
                                     options |-> sel.options, pushed |-> <<>>]
                         /\ UNCHANGED heap
                    ELSE LET clones == MakeClones(heap, current, sel.len - 1)
                             split  == <<current>> \o clones.ids
                         IN  /\ \E moves \in IterationOrders(sel.options) :
                                   heap' = ApplyMoves(clones.heap, split, moves, 1)
                             /\ active' = Tail(active) \o split
                             /\ dead' = DeadAfter(current, Range(split))
                             /\ ret' = [op |-> "step", current |-> current,
                                         before |-> heap[current], rest |-> Tail(active), len |-> sel.len,
                                         options |-> sel.options, pushed |-> split]
                             /\ UNCHANGED <<pc, err>>
           /\ data' = current
    /\ UNCHANGED <<entries, input, emitted>>

\* line 41: the worklist is empty, the generator is exhausted
Finish ==
    /\ pc = "loop"
    /\ active = <<>>
    /\ pc' = "done"
    /\ ret' = [op |-> "return"]
    /\ UNCHANGED <<entries, heap, input, active, emitted, data, err, dead>>

Next == Construct \/ Start \/ StepEmit \/ StepDiscard \/ StepForced \/ StepSplit \/ Finish

Spec == Init /\ [][Next]_vars

\* The runs on well-formed entries, each cell empty or in 1..9.
FairInit == Init /\ Len(entries) = 81 /\ \A k \in 1..81 : entries[k] = None \/ entries[k] \in 1..9

\* The caller consumes the generator to its end (solve's for loop): a step
\* that can be taken is taken.
FairSpec == FairInit /\ [][Next]_vars /\ WF_vars(Next)

(***************************************************************************)
(* The grid view used on its own: a SudokuView over one mutable store, its *)
(* cells written through the view and the view queried.                    *)
(***************************************************************************)

\* BlankSudokuData: every cell reads None
BlankSudokuData == [k \in 1..81 |-> None]

\* The entries the viewed store is built from; the last holds 10 in cell (4,4).
ViewInputs ==
    {BlankSudokuData, ExamplePuzzle, ExampleSolution, Edited({}, << <<4,4>>, 10 >>)}

\* The cells written through the view, in the order in which the bound admits
\* them: (0,0) shares only its row with (5,0), only its column with (0,5) and
\* only its box with (1,1).
ViewCellSeq == << <<0,0>>, <<5,0>>, <<0,5>>, <<1,1>>, <<8,8>>, <<4,4>> >>

\* How many cells of ViewCellSeq are written.
NumViewCells == 4

ViewCells == {ViewCellSeq[i] : i \in 1..NumViewCells}

\* The values written.
ViewValues == {None, 1, 2}

\* The state after TupleSudokuData(entries) has been built without error and
\* a SudokuView made over a MutableSudokuData copy of it
ViewInit ==
    /\ pc = "view"
    /\ entries \in ViewInputs
    /\ TupleSudokuData_init(entries) = "none"
    /\ heap = MutableSudokuData((1 :> entries), 1).heap
    /\ input = 1
    /\ active = <<>>
    /\ emitted = <<>>
    /\ data = 2
    /\ err = "none"
    /\ dead = {}
    /\ ret = [op |-> "none"]

\* SudokuView.__setitem__: the range tests are written 0 > x > 9, then
\* self.data[x, y] = value, a list assignment
ViewSetItem(target, value) ==
    /\ pc = "view"
    /\ LET x == target[1]
           y == target[2]
       IN  IF (0 > x /\ x > 9) \/ (0 > y /\ y > 9) \/ ~PyIndexOk(x + 9 * y, 81)
           THEN /\ ret' = [op |-> "setitem", target |-> target, raised |-> "IndexError"]
                /\ UNCHANGED heap
           ELSE /\ ret' = [op |-> "setitem", target |-> target, raised |-> "none"]
                /\ heap' = [heap EXCEPT ![data] = DataSet(@, target, value)]
    /\ UNCHANGED <<pc, entries, input, active, emitted, data, err, dead>>

\* SudokuView.validate()
ViewValidate ==
    /\ pc = "view"
    /\ ret' = [op |-> "validate", result |-> validate(heap[data])]
    /\ UNCHANGED <<pc, entries, heap, input, active, emitted, data, err, dead>>

\* SudokuView.solved
ViewSolved ==
    /\ pc = "view"
    /\ ret' = [op |-> "solved", result |-> solved(heap[data])]
    /\ UNCHANGED <<pc, entries, heap, input, active, emitted, data, err, dead>>

ViewNext ==
    \/ \E target \in ViewCells, value \in ViewValues : ViewSetItem(target, value)
    \/ ViewValidate
    \/ ViewSolved

ViewSpec == ViewInit /\ [][ViewNext]_vars

(***************************************************************************)
(* get_advancement_options used on its own: the options of the viewed grid *)
(* are listed between writes through the view.                             *)
(***************************************************************************)

\* list(get_advancement_options(sudoku)) on the view
ViewOptions ==
    /\ pc = "view"
    /\ ret' = [op |-> "options", grid |-> heap[data],
                yields |-> get_advancement_options(heap[data])]
    /\ UNCHANGED <<pc, entries, heap, input, active, emitted, data, err, dead>>

\* The values written between listings: a cell is emptied or set to 1.
OptionsValues == {None, 1}

OptionsNext ==
    \/ \E target \in ViewCells, value \in OptionsValues : ViewSetItem(target, value)
    \/ ViewOptions

OptionsSpec == ViewInit /\ [][OptionsNext]_vars

(***************************************************************************)
(* The section views used on their own: rows[p][i], columns[p][i] and      *)
(* boxes[p][i] on the view of the example puzzle.                          *)
(***************************************************************************)

\* The integer indices tried reach IndexSlack below 0 and IndexSlack above 8.
IndexSlack == 2
MinIndex == 0 - IndexSlack
MaxIndex == 8 + IndexSlack

SectionInit ==
    /\ pc = "section"
    /\ entries = ExamplePuzzle
    /\ heap = MutableSudokuData((1 :> entries), 1).heap
    /\ input = 1
    /\ active = <<>>
    /\ emitted = <<>>
    /\ data = 2
    /\ err = "none"
    /\ dead = {}
    /\ ret = [op |-> "none"]

\* Sudoku9.__getitem__(index) on the section of the given kind and position
SectionGetItem(kind, position, index) ==
    /\ pc = "section"
    /\ LET got == Sudoku9GetItem(kind, position, index)
       IN  ret' = [op |-> "getitem", kind |-> kind, position |-> position, index |-> index,
                   raised |-> got.raised, square |-> got.square]
    /\ UNCHANGED <<pc, entries, heap, input, active, emitted, data, err, dead>>

SectionNext ==
    \E kind \in {"row", "column", "box"}, position \in 0..8, index \in MinIndex..MaxIndex :
        SectionGetItem(kind, position, index)

SectionSpec == SectionInit /\ [][SectionNext]_vars

(***************************************************************************)
(* The grid view addressed by coordinate: view[(x, y)] read and written    *)
(* with coordinates inside and outside 0..8, on the view of the example    *)
(* puzzle.                                                                 *)
(***************************************************************************)

\* The coordinates looked up: each of x and y from MinIndex to MaxIndex.
CoordTargets == {<<x, y>> : x \in MinIndex..MaxIndex, y \in MinIndex..MaxIndex}

\* The coordinates written: one inside the grid, two that wrap into another
\* cell, one beyond the end of the store.
CoordWriteTargets == {<<4, 4>>, <<9, 0>>, <<0 - 1, 0>>, <<0, 9>>}

\* The value written.
CoordWriteValue == 7

CoordInit == ViewInit /\ entries = ExamplePuzzle

\* SudokuView.__getitem__(target)
ViewLookup(target) ==
    /\ pc = "view"
    /\ LET got == ViewGetItem(target)
       IN  ret' = [op |-> "lookup", target |-> target,
                   raised |-> got.raised, square |-> got.square]
    /\ UNCHANGED <<pc, entries, heap, input, active, emitted, data, err, dead>>

CoordNext ==
    \/ \E target \in CoordTargets : ViewLookup(target)
    \/ \E target \in CoordWriteTargets : ViewSetItem(target, CoordWriteValue)

CoordSpec == CoordInit /\ [][CoordNext]_vars

(***************************************************************************)
(* data_from_string: a text is a sequence of characters, each a string of  *)
(* length one; "\n" ends a line.                                           *)
(***************************************************************************)

\* set(map(str,range(10))) with '-' added
accepted_characters == {"0", "1", "2", "3", "4", "5", "6", "7", "8", "9", "-"}

\* The characters str.strip() removes, of those the texts explored hold.
Whitespace == {" ", "\n"}

\* int(val) for a character that is a decimal digit
DigitChars == <<"0", "1", "2", "3", "4", "5", "6", "7", "8", "9">>
int(val) == (CHOOSE i \in 1..10 : DigitChars[i] = val) - 1

\* source.strip(): the text without its leading and trailing whitespace
strip(source) ==
    LET kept == {i \in DOMAIN source : source[i] \notin Whitespace}
    IN  IF kept = {} THEN <<>>
        ELSE SubSeq(source, SetMin(kept), CHOOSE m \in kept : \A n \in kept : n <= m)

\* text.split("\n"): the pieces between the line ends, empty pieces included
split(text) ==
    LET cuts == {0, Len(text) + 1} \cup {i \in DOMAIN text : text[i] = "\n"}
        cut(k) == CHOOSE c \in cuts : Cardinality({b \in cuts : b < c}) = k - 1
    IN  [k \in 1..(Cardinality(cuts) - 1) |-> SubSeq(text, cut(k) + 1, cut(k + 1) - 1)]

\* data_from_string(source): the exception raised ("none" if none) and the
\* entries handed to TupleSudokuData, whose __init__ checks them in turn
data_from_string(source) ==
    LET lines == split(strip(source))
        chars == [k \in 1..81 |-> lines[((k - 1) \div 9) + 1][((k - 1) % 9) + 1]]
        made  == [k \in 1..81 |-> IF chars[k] = "-" THEN None ELSE int(chars[k])]
    IN  IF Len(lines) # 9 THEN [raised |-> "ValueError", entries |-> <<>>]
        ELSE IF ~(\A l \in 1..9 : Len(lines[l]) = 9) THEN [raised |-> "ValueError", entries |-> <<>>]
        ELSE IF ~(Range(chars) \subseteq accepted_characters)
        THEN [raised |-> "ValueError", entries |-> <<>>]
        ELSE IF TupleSudokuData_init(made) # "none"
        THEN [raised |-> TupleSudokuData_init(made), entries |-> <<>>]
        ELSE [raised |-> "none", entries |-> made]

\* The text solve.py's entry point parses.
ExampleText ==
    << "\n",
       "-", "2", "1", "-", "-", "-", "-", "3", "4", "\n",
       "9", "-", "-", "-", "2", "-", "1", "-", "8", "\n",
       "7", "5", "-", "8", "1", "4", "-", "9", "-", "\n",
       "6", "-", "-", "1", "7", "-", "-", "-", "3", "\n",
       "-", "4", "7", "2", "-", "9", "-", "-", "5", "\n",
       "-", "3", "5", "-", "6", "-", "9", "1", "7", "\n",
       "4", "1", "8", "3", "-", "2", "-", "7", "9", "\n",
       "-", "-", "6", "9", "8", "-", "3", "4", "-", "\n",
       "-", "9", "-", "-", "-", "7", "-", "-", "1", "\n" >>

\* The characters written into the text, and the texts explored: the example
\* text, and the example text with one character replaced, removed or added.
EditChars == {"0", "5", "-", "x", " ", "\n"}
Replaced(p, c) == [ExampleText EXCEPT ![p] = c]
Removed(p) == SubSeq(ExampleText, 1, p - 1) \o SubSeq(ExampleText, p + 1, Len(ExampleText))
Added(p, c) == SubSeq(ExampleText, 1, p) \o <<c>> \o SubSeq(ExampleText, p + 1, Len(ExampleText))
Texts ==
    {ExampleText}
        \cup {Replaced(p, c) : p \in DOMAIN ExampleText, c \in EditChars}
        \cup {Removed(p) : p \in DOMAIN ExampleText}
        \cup {Added(p, c) : p \in DOMAIN ExampleText, c \in EditChars}

ParseInit ==
    /\ pc = "parse"
    /\ entries = <<>>
    /\ heap = <<>>
    /\ input = 0
    /\ active = <<>>
    /\ emitted = <<>>
    /\ data = 0
    /\ err = "none"
    /\ dead = {}
    /\ ret = [op |-> "none"]

\* The call data_from_string(source): the store it returns, if it returns
\* one, is the only store of the heap afterwards
DataFromString(source) ==
    /\ pc = "parse"
    /\ pc' = "parsed"
    /\ \E got \in {data_from_string(source)} :
          /\ ret' = [op |-> "data_from_string", source |-> source, raised |-> got.raised]
          /\ heap' = IF got.raised = "none" THEN (1 :> got.entries) ELSE <<>>
          /\ input' = IF got.raised = "none" THEN 1 ELSE 0
    /\ UNCHANGED <<entries, active, emitted, data, err, dead>>

ParseNext == \E source \in Texts : DataFromString(source)

ParseSpec == ParseInit /\ [][ParseNext]_vars

(***************************************************************************)
(* What the claims speak of, stated on the grid alone: cells are the       *)
(* sequence positions 1..81, cell k lies in row (k-1) \div 9, in column    *)
(* (k-1) % 9 and in the box of that row and column.                        *)
(***************************************************************************)
RowOf(k)    == (k - 1) \div 9
ColumnOf(k) == (k - 1) % 9
BoxOf(k)    == (ColumnOf(k) \div 3) + 3 * (RowOf(k) \div 3)

\* Two distinct cells of one row / column / box hold the same value.
RowDuplicate(g) ==
    \E a, b \in 1..81 : a < b /\ RowOf(a) = RowOf(b) /\ g[a] # None /\ g[a] = g[b]
ColumnDuplicate(g) ==
    \E a, b \in 1..81 : a < b /\ ColumnOf(a) = ColumnOf(b) /\ g[a] # None /\ g[a] = g[b]
BoxDuplicate(g) ==
    \E a, b \in 1..81 : a < b /\ BoxOf(a) = BoxOf(b) /\ g[a] # None /\ g[a] = g[b]

\* No value occurs twice in any of the 27 sections.
DuplicateFree(g) == ~RowDuplicate(g) /\ ~ColumnDuplicate(g) /\ ~BoxDuplicate(g)

\* Every cell is non-empty.
Full(g) == \A k \in 1..81 : g[k] # None

\* Well-formed: 81 cells, each empty or in 1..9.
WellFormed(g) == Len(g) = 81 /\ \A k \in 1..81 : g[k] = None \/ g[k] \in 1..9

\* The cells that share a section with cell k.
Peers(k) ==
    {j \in 1..81 : j # k /\ (RowOf(j) = RowOf(k) \/ ColumnOf(j) = ColumnOf(k) \/ BoxOf(j) = BoxOf(k))}

\* The peers of every cell.
PeersOf == [k \in 1..81 |-> Peers(k)]

\* The valid completions of g: the full duplicate-free grids over 1..9 that
\* agree with g on its non-empty cells, found by filling the first empty
\* cell with every value none of its peers holds.
RECURSIVE Completions(_)
Completions(g) ==
    IF Full(g) THEN (IF DuplicateFree(g) THEN {g} ELSE {})
    ELSE LET k == SetMin({j \in 1..81 : g[j] = None})
         IN  UNION {Completions([g EXCEPT ![k] = v]) :
                       v \in (1..9) \ {g[j] : j \in PeersOf[k]}}

\* The grids emitted so far.
EmittedGrids == {heap[emitted[i]] : i \in 1..Len(emitted)}

(***************************************************************************)
(* Claims                                                                  *)
(***************************************************************************)

\* C1: every grid emitted by find_solutions, whatever the initial store, has
\* all 81 cells non-empty, passes validate and has no value twice in any of
\* the 27 sections.
C1_EmittedAreValid ==
    \A g \in EmittedGrids : Full(g) /\ validate(g) /\ DuplicateFree(g)

\* C1 witness: a solution has been emitted for a puzzle that had empty cells.
C1_Witness == emitted # <<>> /\ ~Full(entries)

\* C2: when the worklist of a run on a well-formed initial store has become
\* empty, every valid completion of the initial store has been emitted.
C2_Completeness ==
    (pc = "done" /\ WellFormed(entries)) =>
        \A c \in Completions(entries) : c \in EmittedGrids

\* C2 witness: a run has ended on a puzzle with several completions.
C2_Witness ==
    /\ pc = "done"
    /\ WellFormed(entries)
    /\ Cardinality(Completions(entries)) >= 2

\* C3: no grid is emitted twice by one run, and when the run of a
\* well-formed store has ended each valid completion has been emitted exactly
\* once: a puzzle with one completion has yielded exactly one solution.
C3_EmittedOnce ==
    /\ \A i, j \in 1..Len(emitted) : heap[emitted[i]] = heap[emitted[j]] => i = j
    /\ (pc = "done" /\ WellFormed(entries)) =>
          /\ \A c \in Completions(entries) :
                Cardinality({i \in 1..Len(emitted) : heap[emitted[i]] = c}) = 1
          /\ (Cardinality(Completions(entries)) = 1 => Len(emitted) = 1)

\* C3 witness: the run on the example puzzle has ended with one solution.
C3_Witness == pc = "done" /\ entries = ExamplePuzzle /\ Len(emitted) = 1

\* C4: on a well-formed initial store find_solutions raises no error and
\* reaches the empty worklist, and a puzzle without completion ends with no
\* solution emitted.
C4_Terminates ==
    /\ [](WellFormed(entries) => (err = "none" /\ pc # "error"))
    /\ (WellFormed(entries) ~> pc = "done")
    /\ []((pc = "done" /\ WellFormed(entries) /\ Completions(entries) = {}) => emitted = <<>>)

\* C4 witness: the run on an unsolvable puzzle whose givens hold no duplicate
\* has ended with nothing emitted.
C4_Witness ==
    /\ pc = "done"
    /\ WellFormed(entries)
    /\ DuplicateFree(entries)
    /\ ~Full(entries)
    /\ emitted = <<>>

\* C5: a store popped with an advancement option of size 0, and every store
\* derived from it, is never emitted.
C5_PrunedNeverEmitted == \A i \in 1..Len(emitted) : emitted[i] \notin dead

\* C5 witness: a store that had an option of size 0 when popped was requeued
\* with a forced move and waits in the worklist.
C5_Witness == \E i \in 1..Len(active) : active[i] \in dead

\* The number of cells in which two stores differ.
Differences(g, h) == Cardinality({k \in 1..81 : g[k] # h[k]})

\* No store is reachable twice: the worklist holds each store once, and
\* none of its stores is an emitted solution or the caller's input.
NoSharing ==
    /\ \A i, j \in 1..Len(active) : active[i] = active[j] => i = j
    /\ \A i, j \in 1..Len(emitted) : emitted[i] = emitted[j] => i = j
    /\ \A i \in 1..Len(active) : active[i] # input /\ active[i] \notin Range(emitted)

\* A step writes only the popped store and the stores it creates, one cell
\* each: every other store, queued, emitted or the caller's, keeps its cells.
IsolatedStep ==
    /\ \A id \in DOMAIN heap :
          IF active # <<>> /\ id = Head(active)
          THEN Differences(heap'[id], heap[id]) <= 1
          ELSE heap'[id] = heap[id]
    /\ \A id \in DOMAIN heap' \ DOMAIN heap :
          pc = "loop" => Differences(heap'[id], heap[Head(active)]) <= 1
    /\ NoSharing'

\* C6: every write of a step of find_solutions changes one store only, and is
\* seen through no other store of the worklist, no emitted solution and not
\* through the caller's input: no two of them share cell storage.
C6_StoreIsolation == [][IsolatedStep]_vars

\* C6 witness: a branch has been emitted while the clone made beside it is
\* still in the worklist.
C6_Witness == emitted # <<>> /\ active # <<>>

\* C7: the result of SudokuView.solved is true exactly when every cell is
\* non-empty and no section holds a value twice.
C7_SolvedIffFullAndValid ==
    ret.op = "solved" => (ret.result <=> (Full(heap[data]) /\ DuplicateFree(heap[data])))

\* C8: on a grid whose non-empty cells hold values in 1..9, full or not, the
\* result of SudokuView.validate is true exactly when no row, column or box
\* holds a value in two non-empty cells.
C8_ValidateIffDuplicateFree ==
    (ret.op = "validate" /\ WellFormed(heap[data])) =>
        (ret.result <=> DuplicateFree(heap[data]))

\* C8 witness: validate has returned false on a partly filled grid whose only
\* duplicate lies in a box.
C8_Witness ==
    /\ ret.op = "validate"
    /\ WellFormed(heap[data])
    /\ ~Full(heap[data])
    /\ ret.result = FALSE
    /\ BoxDuplicate(heap[data])
    /\ ~RowDuplicate(heap[data])
    /\ ~ColumnDuplicate(heap[data])

\* C9: construction from 81 entries with an integer outside 1..9 among them
\* is rejected with an error, and no store holds a set value outside 1..9.
C9_ConstructionRejectsOutOfRange ==
    /\ (pc # "new" /\ ~WellFormed(entries)) => (pc = "error" /\ err = "ValueError")
    /\ \A id \in DOMAIN heap : WellFormed(heap[id])

\* C10: indexing a section view with an integer outside 0..8 raises
\* IndexError and returns no cell.
C10_SectionIndexOutOfRangeRaises ==
    (ret.op = "getitem" /\ ret.index \notin 0..8) => ret.raised = "IndexError"

\* C11: a lookup or a write view[(x, y)] with x or y outside 0..8 raises
\* IndexError; a lookup returns no square of another coordinate, and a write
\* leaves the store as construction made it apart from writes inside 0..8.
C11_ViewCoordinateOutOfRangeRaises ==
    /\ (ret.op \in {"lookup", "setitem"}
            /\ (ret.target[1] \notin 0..8 \/ ret.target[2] \notin 0..8))
          => ret.raised = "IndexError"
    /\ pc = "view" =>
          \A k \in 1..81 : squares[k] \notin CoordWriteTargets => heap[data][k] = entries[k]

\* The 10 symbols of a puzzle text: the digits 1 to 9 and the placeholder.
Symbols == {"1", "2", "3", "4", "5", "6", "7", "8", "9", "-"}

\* The text, leading and trailing blanks and line ends aside, is 9 lines of
\* 9 symbols each: 89 characters, every tenth a line end.
NineByNine(text) ==
    \E i, j \in DOMAIN text :
        /\ j - i = 88
        /\ \A k \in DOMAIN text : (k < i \/ k > j) => text[k] \in {" ", "\n"}
        /\ \A k \in i..j : IF (k - i + 1) % 10 = 0 THEN text[k] = "\n" ELSE text[k] \in Symbols

\* C12: data_from_string raises ValueError and constructs no store for every
\* text that is not 9 lines of 9 characters among the digits 1-9 and '-'.
C12_MalformedTextRejected ==
    (ret.op = "data_from_string" /\ ~NineByNine(ret.source)) =>
        (ret.raised = "ValueError" /\ heap = <<>>)

\* The groups of yields of the generator on grid d that hold an option of n moves.
GroupsOfSize(d, n) ==
    UNION {{i \in DOMAIN groups : \E yield \in groups[i] : Cardinality(yield.option) = n} :
              groups \in {get_advancement_options(d)}}

\* C13 as stated: a step that popped a store with some option of size 0
\* selected an option of size 0 and requeued nothing.
C13_EmptyOptionDiscards ==
    (ret.op = "step" /\ HasEmptyOption(ret.before)) =>
        (ret.len = 0 /\ ret.pushed = <<>> /\ ret.current \notin Range(active))

\* C13 amended: the first option of size 0 or 1 in enumeration order decides.
\* If an option of size 0 is yielded before every option of size 1, the
\* result has size 0 and the step requeues nothing; if an option of size 1
\* is yielded before every option of size 0, the result has size 1 and the
\* popped store is requeued; a result of size 0 always discards.
C13_FirstShortOptionDecides ==
    ret.op = "step" =>
        \E empty \in {GroupsOfSize(ret.before, 0)}, single \in {GroupsOfSize(ret.before, 1)} :
            /\ (empty # {} /\ \A i \in single : i > SetMin(empty)) =>
                  (ret.len = 0 /\ ret.pushed = <<>> /\ ret.current \notin Range(active))
            /\ (empty # {} /\ single # {} /\ SetMin(single) < SetMin(empty)) =>
                  (ret.len = 1 /\ ret.pushed = <<ret.current>>)
            /\ empty # {} => ret.len \in {0, 1}
            /\ ret.len = 0 => (ret.pushed = <<>> /\ ret.current \notin Range(active))

\* C13 witness: a store was discarded on an option of size 0 yielded before
\* an option of size 1 of the same store.
C13_Witness ==
    /\ ret.op = "step"
    /\ ret.len = 0
    /\ ret.pushed = <<>>
    /\ GroupsOfSize(ret.before, 1) # {}

(***************************************************************************)
(* Advancement options stated on the grid alone.  A section is numbered 1  *)
(* to 27: rows 0..8, then columns 0..8, then boxes 0..8.                   *)
(***************************************************************************)
SectionCells ==
    [s \in 1..27 |->
        {k \in 1..81 : IF s <= 9 THEN RowOf(k) = s - 1
                       ELSE IF s <= 18 THEN ColumnOf(k) = s - 10
                       ELSE BoxOf(k) = s - 19}]

\* The values of 1..9 that no cell sharing a section with cell k holds.
Candidates(g, k) == (1..9) \ {g[j] : j \in PeersOf[k]}

\* The moves <<x, y, v>> of an empty cell k, one per candidate.
CellMoves(g, k) == {<<ColumnOf(k), RowOf(k), v>> : v \in Candidates(g, k)}

\* The values of 1..9 that no cell of section s holds.
MissingIn(g, s) == (1..9) \ {g[k] : k \in SectionCells[s]}

\* The moves <<x, y, v>> that put v into an empty cell of section s.
SectionMoves(g, s, v) ==
    {<<ColumnOf(k), RowOf(k), v>> :
        k \in {j \in SectionCells[s] : g[j] = None /\ v \in Candidates(g, j)}}

\* The sizes of all the options of grid g.
OptionSizes(g) ==
    {Cardinality(CellMoves(g, k)) : k \in {j \in 1..81 : g[j] = None}}
        \cup UNION {{Cardinality(SectionMoves(g, s, v)) : v \in MissingIn(g, s)} : s \in 1..27}

\* The options of least size n that come first in enumeration order: the
\* option of the first empty cell that has n candidates, or if no cell has,
\* the options of size n of the first section that has one.
FirstOfSize(g, n) ==
    LET cells == {k \in 1..81 : g[k] = None /\ Cardinality(CellMoves(g, k)) = n}
        secs  == {s \in 1..27 : \E v \in MissingIn(g, s) : Cardinality(SectionMoves(g, s, v)) = n}
    IN  IF cells # {} THEN {CellMoves(g, SetMin(cells))}
        ELSE {SectionMoves(g, SetMin(secs), v) :
                 v \in {w \in MissingIn(g, SetMin(secs)) :
                            Cardinality(SectionMoves(g, SetMin(secs), w)) = n}}

WithMove(g, move) == [g EXCEPT ![move[1] + 9 * move[2] + 1] = move[3]]

\* C15: a step whose selected option has k >= 1 alternatives appends exactly
\* k stores to the back of the worklist, one per alternative, each the
\* popped store as it was with that alternative's cell set; for k = 1 the
\* store appended is the popped store, for k > 1 the popped store and k - 1
\* stores created by the step.
C15_StepAppendsOneStorePerAlternative ==
    (ret.op = "step" /\ ret.len >= 1) =>
        /\ Cardinality(ret.options) = ret.len
        /\ Len(ret.pushed) = ret.len
        /\ active = ret.rest \o ret.pushed
        /\ \A i, j \in 1..Len(ret.pushed) : ret.pushed[i] = ret.pushed[j] => i = j
        /\ {heap[ret.pushed[i]] : i \in 1..Len(ret.pushed)}
              = {WithMove(ret.before, move) : move \in ret.options}
        /\ \A move \in ret.options : WithMove(ret.before, move) # ret.before
        /\ ret.pushed[1] = ret.current
        /\ \A i \in 2..Len(ret.pushed) :
              /\ ret.pushed[i] = Cardinality(DOMAIN heap) - Len(ret.pushed) + i
              /\ ret.pushed[i] \notin Range(ret.rest)

\* C15 witness: a step branched into two worklist entries, the popped store
\* and one store created by the step.
C15_Witness ==
    /\ ret.op = "step"
    /\ ret.len = 2
    /\ Len(active) = 2
    /\ active[1] = ret.current
    /\ active[2] # ret.current

\* The empty cells of g in row-major order.
EmptyCells(g) ==
    LET empty == {k \in 1..81 : g[k] = None}
    IN  [i \in 1..Cardinality(empty) |->
            CHOOSE k \in empty : Cardinality({j \in empty : j < k}) = i - 1]

\* C16: get_advancement_options yields one option per empty cell, in
\* row-major order, holding one move per value absent from the cell's row,
\* column and box; then for each section one option per value missing from
\* it, holding one move per empty cell of the section that has the value as
\* candidate; nothing else, and the grid is left as it was.
C16_OptionsAreCellsThenSections ==
    ret.op = "options" =>
        \E cells \in {EmptyCells(ret.grid)} :
            /\ Len(ret.yields) = Len(cells) + 27
            /\ \A i \in 1..Len(cells) :
                  /\ Cardinality(ret.yields[i]) = 1
                  /\ \A yield \in ret.yields[i] : yield.option = CellMoves(ret.grid, cells[i])
            /\ \A s \in 1..27 :
                  /\ Cardinality(ret.yields[Len(cells) + s]) = Cardinality(MissingIn(ret.grid, s))
                  /\ \A v \in MissingIn(ret.grid, s) :
                        \E yield \in ret.yields[Len(cells) + s] :
                            /\ yield.by[3] = v
                            /\ yield.option = SectionMoves(ret.grid, s, v)
            /\ heap[data] = ret.grid

\* C16 witness: the options were listed for a grid with empty cells, one of
\* its section options holding two moves and another none.
C16_Witness ==
    /\ ret.op = "options"
    /\ ~Full(ret.grid)
    /\ \E s \in 1..27 : \E v \in MissingIn(ret.grid, s) :
          Cardinality(SectionMoves(ret.grid, s, v)) = 2
    /\ \E s \in 1..27 : \E v \in MissingIn(ret.grid, s) : SectionMoves(ret.grid, s, v) = {}

\* The valid completions of g: full, values in 1..9, no duplicate in a section.
ValidCompletions(g) == {c \in Completions(g) : WellFormed(c)}

\* Move <<x, y, v>> agrees with grid c: c holds v at (x, y).
Agrees(move, c) == c[move[1] + 9 * move[2] + 1] = move[3]

\* C17: every option yielded for the store a step popped holds exactly one
\* move that agrees with any given valid completion of that store; so the
\* alternatives of the option selected lead to disjoint sets of completions
\* that together are all the completions of the store.
C17_OneCorrectMovePerOption ==
    ret.op = "step" =>
        \E groups \in {get_advancement_options(ret.before)},
           completions \in {ValidCompletions(ret.before)} :
            /\ \A c \in completions : \A i \in DOMAIN groups : \A yield \in groups[i] :
                  Cardinality({move \in yield.option : Agrees(move, c)}) = 1
            /\ ret.len >= 1 =>
                  /\ \A m, n \in ret.options :
                        m # n => ValidCompletions(WithMove(ret.before, m))
                                    \cap ValidCompletions(WithMove(ret.before, n)) = {}
                  /\ UNION {ValidCompletions(WithMove(ret.before, m)) : m \in ret.options}
                        = completions

\* C17 witness: a step branched on a store with two valid completions.
C17_Witness ==
    /\ ret.op = "step"
    /\ ret.len = 2
    /\ Cardinality(ValidCompletions(ret.before)) = 2

\* Grid g is valid, has exactly one empty cell, and the row, the column and
\* the box of that cell each hold the same 8 values.
OneCellLeft(g) ==
    /\ WellFormed(g)
    /\ DuplicateFree(g)
    /\ Cardinality({k \in 1..81 : g[k] = None}) = 1
    /\ \E k \in 1..81 :
          /\ g[k] = None
          /\ Cardinality(Candidates(g, k)) = 1
          /\ \A s \in 1..27 : k \in SectionCells[s] => MissingIn(g, s) = Candidates(g, k)

\* The yields of a listing, each named by what it was computed for.
YieldsListed == UNION {ret.yields[i] : i \in DOMAIN ret.yields}

\* C18 as stated: for a grid with one cell left the generator yields exactly
\* one option, of size 1, whose move makes the grid solved.
C18_OneCellLeftYieldsOneOption ==
    (ret.op = "options" /\ OneCellLeft(ret.grid)) =>
        /\ Cardinality(YieldsListed) = 1
        /\ \A yield \in YieldsListed :
              /\ Cardinality(yield.option) = 1
              /\ \A move \in yield.option : solved(WithMove(ret.grid, move))

\* C18 amended: for a grid with one cell left the generator yields four
\* options, one for the cell and one for each of its row, column and box;
\* all four are the same set of one move, and that move makes the grid
\* solved: full and free of duplicates.
C18_OneCellLeftYieldsOneMove ==
    (ret.op = "options" /\ OneCellLeft(ret.grid)) =>
        /\ Cardinality(YieldsListed) = 4
        /\ Cardinality({yield.by : yield \in YieldsListed}) = 4
        /\ Cardinality({yield \in YieldsListed : yield.by[1] = "square"}) = 1
        /\ Cardinality({yield.option : yield \in YieldsListed}) = 1
        /\ \A yield \in YieldsListed :
              /\ Cardinality(yield.option) = 1
              /\ \A move \in yield.option :
                    /\ ret.grid[move[1] + 9 * move[2] + 1] = None
                    /\ solved(WithMove(ret.grid, move))
                    /\ Full(WithMove(ret.grid, move))
                    /\ DuplicateFree(WithMove(ret.grid, move))

\* C18 witness: the options were listed for a grid with one cell left.
C18_Witness == ret.op = "options" /\ OneCellLeft(ret.grid)

\* C19: every store a step popped unsolved, a full grid with a duplicate or
\* a value outside 1..9 included, has at least one advancement option: the
\* selection is never (None, None) and no step fails on the option size.
C19_UnsolvedStoreHasAnOption ==
    /\ err # "TypeError"
    /\ ret.op = "step" =>
          /\ ret.len # None
          /\ ret.len \in 0..9
          /\ \E groups \in {get_advancement_options(ret.before)} :
                \E i \in DOMAIN groups : groups[i] # {}
          /\ OptionSizes(ret.before) # {}

\* C19 witness: a step popped a full grid that holds a value outside 1..9
\* and is not solved.
C19_Witness ==
    /\ ret.op = "step"
    /\ Full(ret.before)
    /\ ~WellFormed(ret.before)
    /\ DuplicateFree(ret.before)

\* The number of non-empty cells of g.
Filled(g) == Cardinality({k \in 1..81 : g[k] # None})

\* Grid g holds every given of the initial store.
KeepsGivens(g) == \A k \in 1..81 : entries[k] # None => g[k] = entries[k]

\* C20: every move of a step targets a cell that is empty in the popped
\* store, every store requeued has one more non-empty cell than the popped
\* store had, and every store of the worklist and every emitted solution
\* agrees with the initial store on all its given cells.
C20_MovesFillEmptyCells ==
    /\ (ret.op = "step" /\ ret.len >= 1) =>
          /\ \A move \in ret.options : ret.before[move[1] + 9 * move[2] + 1] = None
          /\ \A i \in 1..Len(ret.pushed) :
                Filled(heap[ret.pushed[i]]) = Filled(ret.before) + 1
    /\ \A i \in 1..Len(active) : KeepsGivens(heap[active[i]])
    /\ \A i \in 1..Len(emitted) : KeepsGivens(heap[emitted[i]])

\* C20 witness: a solution was emitted for a puzzle with givens and empty
\* cells after a step that branched, its sibling still waiting.
C20_Witness ==
    /\ emitted # <<>>
    /\ active # <<>>
    /\ Filled(entries) > 0
    /\ Filled(heap[emitted[1]]) > Filled(entries)
    /\ Filled(heap[active[1]]) > Filled(entries)

====
